---------------------------- MODULE Spec2Model ----------------------------
(***************************************************************************)
(* The phone-to-PC photo transfer of snapconvert.                          *)
(*                                                                         *)
(*   MobileUpload      (src/src/MobileUpload.tsx)  the sender, on the phone *)
(*   PhoneUploadModal  (src/unnamed/part_002)      the receiver, on the PC  *)
(*   main.tsx          (src/unnamed/part_001)      the choice of the page   *)
(*   vite.config.ts    (src/unnamed/part_000)      LOCAL_IP at build time   *)
(*   App               (src/src/App.tsx)           OCR and the document     *)
(*                                                                         *)
(* Both are React components driven by PeerJS events.  Every handler runs  *)
(* to completion on a single-threaded event loop, so every handler is one  *)
(* action; sendFiles is an async function and is cut at its two awaits.    *)
(* The PeerJS broker and the data channel are the environment: they decide *)
(* when open, connection, data, close and error events fire.               *)
(***************************************************************************)
EXTENDS Integers, Sequences, FiniteSets, TLC

(***************************************************************************)
(* Bounds of the model.                                                    *)
(***************************************************************************)
\* the longest selection a user builds on the phone
MaxFiles == 2

\* the most images a user hands to App
MaxImages == 2

(***************************************************************************)
(* Values.                                                                 *)
(***************************************************************************)
\* An optional field of a JavaScript object: <<>> is undefined, <<v>> is v.
None == <<>>
Some(v) == <<v>>

\* JavaScript truthiness of an optional string: undefined and "" are falsy.
TruthyString(opt) == opt # None /\ opt[1] # ""

\* JavaScript truthiness of an optional ArrayBuffer: an object is truthy,
\* also when it holds zero bytes; only undefined is falsy.
TruthyObject(opt) == opt # None

\* `x || 0` for an optional number
OrZero(opt) == IF opt # None /\ opt[1] # 0 THEN opt[1] ELSE 0

\* The identifier the broker assigns to the receiver's endpoint.
PeerId == "pc-1"

\* The File objects the phone's picker can hand over: a File has a name, a
\* type ("" when the browser cannot tell it) and its bytes (zero or more).
PickableFiles ==
    { [name |-> "a.jpg",  type |-> "image/jpeg", bytes |-> <<255, 216>>],
      [name |-> "b.png",  type |-> "image/png",  bytes |-> <<>>],
      [name |-> "c.heic", type |-> "",           bytes |-> <<0>>] }

\* all sequences over S of length lo..hi
SeqsOf(S, lo, hi) == UNION { [1..n -> S] : n \in lo..hi }

(***************************************************************************)
(* State.                                                                  *)
(***************************************************************************)
VARIABLES
    pc,               \* the PC's page: its window.location, the LOCAL_IP
                      \*   built into it, and the identifier the broker
                      \*   gave to the receiver's endpoint ("" before)
    launch,           \* the phone's page: the URL it was loaded from and
                      \*   the component main.tsx rendered ("none" before
                      \*   a page is loaded, "MobileUpload", "App")
    requested,        \* history: the identifiers peer.connect was called
                      \*   with, in order
    remotePeerId,     \* MobileUpload: the peer parameter of the launch URL
    mobile,           \* MobileUpload: its React state and connRef
    mobilePeer,       \* MobileUpload: its Peer ("none" before the effect
                      \*   ran, "absent" when the effect made none,
                      \*   "created", "open", "failed")
    mobileConn,       \* MobileUpload: its DataConnection
                      \*   ("none", "connecting", "open", "closed")
    run,              \* the invocation of sendFiles: where it stands
    sent,             \* every message handed to conn.send, in order
    wire,             \* messages on the data channel, not yet delivered
    modal,            \* PhoneUploadModal: its React state
    receivedFilesRef, \* PhoneUploadModal: receivedFilesRef.current
    modalPeer,        \* PhoneUploadModal: its Peer ("created", "open",
                      \*   "failed")
    modalConn,        \* PhoneUploadModal: the inbound DataConnection
                      \*   ("none", "open", "closed")
    arrived,          \* every message delivered to conn.on('data'), in order
    calls,            \* the calls of onFilesReceived: the contents of the
                      \*   array passed, as they were at the call
    others,           \* PhoneUploadModal: the inbound DataConnections of
                      \*   other peers, each "none", "open" or "closed"
    takenFrom,        \* history: the other peers whose connection
                      \*   peer.on('connection') took, in that order
    scripts,          \* the other peers as senders that follow the
                      \*   protocol: the size of the batch each sends (0
                      \*   before its first message) and how far it is
    app,              \* App: its React state
    conv,             \* App: the invocation of handleConvert: where it
                      \*   stands, its locals and its progress timer
    last              \* history: the handler that ran last, and the status
                      \*   of its component before it ran

vars == << pc, launch, requested, remotePeerId, mobile, mobilePeer, mobileConn, run, sent, wire,
           modal, receivedFilesRef, modalPeer, modalConn, arrived, calls,
           others, takenFrom, scripts, app, conv, last >>

mobileVars == << launch, requested, remotePeerId, mobile, mobilePeer,
                 mobileConn, run, sent >>
appVars    == << app, conv >>
modalVars  == << pc, modal, receivedFilesRef, modalPeer, modalConn, arrived,
                 calls, others, takenFrom, scripts, appVars >>

\* the history entry of a handler
Ran(handler, prev) == [ handler |-> handler, prev |-> prev ]


(***************************************************************************)
(* Messages on the data channel.                                           *)
(***************************************************************************)
\* a slip in 94: the running count in place of the size of the batch
FileMessageRunningTotal(file, i, total) ==
    [ type     |-> "file",
      name     |-> Some(file.name),
      mimeType |-> Some(file.type),
      data     |-> Some(file.bytes),
      index    |-> Some(i),
      total    |-> Some(i + 1) ]

\* MobileUpload.tsx 88-95: the object sendFiles hands to conn.send for the
\* file at (zero-based) position i of a batch of `total` files.
FileMessage(file, i, total) ==
    [ type     |-> "file",
      name     |-> Some(file.name),
      mimeType |-> Some(file.type),
      data     |-> Some(file.bytes),
      index    |-> Some(i),
      total    |-> Some(total) ]

\* MobileUpload.tsx 104: { type: 'done' }; every other field is undefined.
DoneMessage ==
    [ type     |-> "done",
      name     |-> None,
      mimeType |-> None,
      data     |-> None,
      index    |-> None,
      total    |-> None ]

(***************************************************************************)
(* The page load: main.tsx (src/unnamed/part_001).                         *)
(***************************************************************************)
\* the position of the first character ch of the string s, 0 without one
Find(s, ch) ==
    IF \E i \in 1..Len(s) : SubSeq(s, i, i) = ch
      THEN CHOOSE i \in 1..Len(s) :
             /\ SubSeq(s, i, i) = ch
             /\ \A j \in 1..(i - 1) : SubSeq(s, j, j) # ch
      ELSE 0

\* the pieces of s between the characters ch
RECURSIVE Split(_, _)
Split(s, ch) ==
    LET at == Find(s, ch)
    IN  IF at = 0
          THEN << s >>
          ELSE << SubSeq(s, 1, at - 1) >> \o Split(SubSeq(s, at + 1, Len(s)), ch)

\* every "+" of s replaced by a space, as URLSearchParams decodes a value
\* (no string of the model holds a percent escape)
RECURSIVE PlusDecoded(_)
PlusDecoded(s) ==
    IF s = "" THEN ""
    ELSE (IF SubSeq(s, 1, 1) = "+" THEN " " ELSE SubSeq(s, 1, 1))
            \o PlusDecoded(SubSeq(s, 2, Len(s)))

\* part_001 8: window.location.search of a page loaded from href: what
\* follows the host and path from the first "?" up to a "#", and "" when
\* that is the "?" alone
SearchOf(href) ==
    LET hash   == Find(href, "#")
        noHash == IF hash = 0 THEN href ELSE SubSeq(href, 1, hash - 1)
        at     == Find(noHash, "?")
        search == IF at = 0 THEN "" ELSE SubSeq(noHash, at, Len(noHash))
    IN  IF search = "?" THEN "" ELSE search

\* part_001 8: new URLSearchParams(search): the name and value pairs of the
\* query, in order; a piece without "=" has the value ""
URLSearchParams(search) ==
    LET query  == IF search # "" /\ SubSeq(search, 1, 1) = "?"
                    THEN SubSeq(search, 2, Len(search))
                    ELSE search
        pieces == SelectSeq(Split(query, "&"), LAMBDA piece : piece # "")
        PairOf(piece) ==
            LET eq == Find(piece, "=")
            IN  IF eq = 0
                  THEN [ name |-> PlusDecoded(piece), value |-> "" ]
                  ELSE [ name  |-> PlusDecoded(SubSeq(piece, 1, eq - 1)),
                         value |-> PlusDecoded(SubSeq(piece, eq + 1, Len(piece))) ]
    IN  [ k \in 1..Len(pieces) |-> PairOf(pieces[k]) ]

\* params.has(name)
ParamHas(params, name) == \E k \in 1..Len(params) : params[k].name = name

\* params.get(name): the value of the first pair of that name, or null
ParamGet(params, name) ==
    IF ParamHas(params, name)
      THEN Some(params[CHOOSE k \in 1..Len(params) :
                          /\ params[k].name = name
                          /\ \A j \in 1..(k - 1) : params[j].name # name].value)
      ELSE None

\* part_001 9: params.get('mode') === 'upload' && params.has('peer')
isMobileUpload(search) ==
    /\ ParamGet(URLSearchParams(search), "mode") = Some("upload")
    /\ ParamHas(URLSearchParams(search), "peer")

\* part_001 13: the component rendered into the root
RootOf(href) == IF isMobileUpload(SearchOf(href)) THEN "MobileUpload" ELSE "App"

\* no page is loaded on the phone
NotLoaded == [ href |-> "", root |-> "none" ]

\* the phone's page after main.tsx ran on href
Loaded(href) == [ href |-> href, root |-> RootOf(href) ]

(***************************************************************************)
(* MobileUpload, the sender.                                               *)
(***************************************************************************)
\* The URLs the sender's page is launched from in the transfer: the one the
\* receiver publishes, and the same with the identifier cut off.
LaunchUrls ==
    { "http://192.168.1.5:3000/?mode=upload&peer=" \o PeerId,
      "http://192.168.1.5:3000/?mode=upload&peer=" }

\* MobileUpload.tsx 15-16: params.get('peer') of those
LaunchQueries == { ParamGet(URLSearchParams(SearchOf(href)), "peer") : href \in LaunchUrls }

\* MobileUpload.tsx 16: params.get('peer') || ''
RemotePeerIdOf(param) == IF TruthyString(param) THEN param[1] ELSE ""

\* MobileUpload.tsx 15-16: remotePeerId of a page loaded from href
RemotePeerIdAt(href) ==
    RemotePeerIdOf(ParamGet(URLSearchParams(SearchOf(href)), "peer"))

\* MobileUpload.tsx 16: the values of remotePeerId
LaunchPeerParams == { RemotePeerIdOf(param) : param \in LaunchQueries }

\* MobileUpload.tsx 18-23: the state after the first render
MobileInit ==
    [ status        |-> "connecting",
      selectedFiles |-> <<>>,
      previews      |-> <<>>,
      sendProgress  |-> 0,
      totalFiles    |-> 0,
      connRef       |-> FALSE ]

\* sendFiles has not been called
RunIdle == [ pc |-> "idle", i |-> 0, files |-> <<>> ]

\* a slip in 27-30: the effect does not look at remotePeerId
MobileMountWithoutCheck ==
    /\ launch.root = "MobileUpload"
    /\ mobilePeer = "none"
    /\ mobile.status = "connecting"
    /\ mobileConn = "none"
    /\ mobilePeer' = "created"
    /\ UNCHANGED << launch, requested, remotePeerId, mobile, mobileConn, run, sent, wire >>
    /\ UNCHANGED modalVars
    /\ last' = Ran("MobileMount", mobile.status)

\* MobileUpload.tsx 26-32: the effect run on mount.  Without a peer
\* identifier the status becomes error and no Peer is created.
MobileMount ==
    /\ launch.root = "MobileUpload"
    /\ mobilePeer = "none"
    /\ mobile.status = "connecting"
    /\ mobileConn = "none"
    /\ IF remotePeerId = ""
         THEN /\ mobile' = [mobile EXCEPT !.status = "error"]
              /\ mobilePeer' = "absent"
         ELSE /\ mobilePeer' = "created"
              /\ UNCHANGED mobile
    /\ UNCHANGED << launch, requested, remotePeerId, mobileConn, run, sent, wire >>
    /\ UNCHANGED modalVars
    /\ last' = Ran("MobileMount", mobile.status)

\* MobileUpload.tsx 34-35: peer.on('open') issues the connection request:
\* peer.connect(remotePeerId).
MobilePeerOpen ==
    /\ mobilePeer = "created"
    /\ mobilePeer' = "open"
    /\ mobileConn' = "connecting"
    /\ requested' = Append(requested, remotePeerId)
    /\ UNCHANGED << launch, remotePeerId, mobile, run, sent, wire >>
    /\ UNCHANGED modalVars
    /\ last' = Ran("MobilePeerOpen", mobile.status)

\* MobileUpload.tsx 37-40: conn.on('open').  The channel opens only once the
\* receiver's endpoint has taken the connection.
MobileConnOpen ==
    /\ mobileConn = "connecting"
    /\ modalConn = "open"
    /\ mobileConn' = "open"
    /\ mobile' = [mobile EXCEPT !.connRef = TRUE, !.status = "connected"]
    /\ UNCHANGED << launch, requested, remotePeerId, mobilePeer, run, sent, wire >>
    /\ UNCHANGED modalVars
    /\ last' = Ran("MobileConnOpen", mobile.status)

\* a slip in 44: a close while sending is taken for a completed transfer
StatusAfterCloseSendingIsDone(prev) ==
    IF prev \in { "done", "sending" } THEN "done" ELSE "error"

\* a slip in 44: the close is an error whatever the status was
StatusAfterCloseAlwaysError(prev) == "error"

\* MobileUpload.tsx 44: prev => prev === 'done' ? 'done' : 'error'
StatusAfterClose(prev) == IF prev = "done" THEN "done" ELSE "error"

\* a slip in 42-45: the close handler asks for the connection again
MobileConnCloseRetries ==
    /\ mobileConn \in { "connecting", "open" }
    /\ mobileConn' = "closed"
    /\ mobile' = [mobile EXCEPT !.status = StatusAfterClose(mobile.status)]
    /\ requested' = Append(requested, remotePeerId)
    /\ UNCHANGED << launch, remotePeerId, mobilePeer, run, sent, wire >>
    /\ UNCHANGED modalVars
    /\ last' = Ran("MobileConnClose", mobile.status)

\* MobileUpload.tsx 42-45: conn.on('close'), fired once per connection.
MobileConnClose ==
    /\ mobileConn \in { "connecting", "open" }
    /\ mobileConn' = "closed"
    /\ mobile' = [mobile EXCEPT !.status = StatusAfterClose(mobile.status)]
    /\ UNCHANGED << launch, requested, remotePeerId, mobilePeer, run, sent, wire >>
    /\ UNCHANGED modalVars
    /\ last' = Ran("MobileConnClose", mobile.status)

\* MobileUpload.tsx 48 and 53: setStatus('error'), whatever the status was.
StatusAfterError(prev) == "error"

\* MobileUpload.tsx 47-49: conn.on('error').  The library reports an error of
\* a connection that has opened, at any time, also after its close (a send on
\* a closed connection is reported this way).
MobileConnError ==
    /\ mobileConn \in { "open", "closed" }
    /\ mobile' = [mobile EXCEPT !.status = StatusAfterError(mobile.status)]
    /\ UNCHANGED << launch, requested, remotePeerId, mobilePeer, mobileConn, run, sent, wire >>
    /\ UNCHANGED modalVars
    /\ last' = Ran("MobileConnError", mobile.status)

\* What an error does to an endpoint: before the broker assigned an
\* identifier the error is fatal and the endpoint never opens; afterwards
\* (the broker is lost, the target is unavailable) the endpoint and an open
\* data channel go on.
PeerAfterError(peer) == IF peer = "created" THEN "failed" ELSE peer

\* MobileUpload.tsx 52-54: peer.on('error')
MobilePeerError ==
    /\ mobilePeer \in { "created", "open" }
    /\ mobilePeer' = PeerAfterError(mobilePeer)
    /\ mobile' = [mobile EXCEPT !.status = StatusAfterError(mobile.status)]
    /\ UNCHANGED << launch, requested, remotePeerId, mobileConn, run, sent, wire >>
    /\ UNCHANGED modalVars
    /\ last' = Ran("MobilePeerError", mobile.status)

\* MobileUpload.tsx 142-163: the picker is offered while the status is
\* connected (the button is disabled while sending and absent otherwise).
PickerOffered == mobile.status = "connected"

\* MobileUpload.tsx 72: URL.createObjectURL(f), a new URL that stands for
\* the file it was created from
createObjectURL(file) == [ createdFrom |-> file ]

\* a slip in 72: the previews come out in the opposite order
PreviewsOfReversed(files) ==
    [ k \in 1..Len(files) |-> createObjectURL(files[Len(files) + 1 - k]) ]

\* MobileUpload.tsx 72: files.map(f => URL.createObjectURL(f))
PreviewsOf(files) == [ k \in 1..Len(files) |-> createObjectURL(files[k]) ]

\* a slip in 68-74: picking files starts the transfer
handleFileSelectCallAutoSend(files) ==
    /\ mobile' = [mobile EXCEPT !.selectedFiles = @ \o files,
                                !.previews = @ \o PreviewsOf(files),
                                !.status = "sending"]
    /\ UNCHANGED << launch, requested, remotePeerId, mobilePeer, mobileConn, run, sent, wire >>
    /\ UNCHANGED modalVars
    /\ last' = Ran("handleFileSelect", mobile.status)

\* MobileUpload.tsx 68-74: the picked files go to the end of the selection
\* and their previews to the end of the previews.
handleFileSelectCall(files) ==
    /\ mobile' = [mobile EXCEPT !.selectedFiles = @ \o files,
                                !.previews = @ \o PreviewsOf(files)]
    /\ UNCHANGED << launch, requested, remotePeerId, mobilePeer, mobileConn, run, sent, wire >>
    /\ UNCHANGED modalVars
    /\ last' = Ran("handleFileSelect", mobile.status)

\* MobileUpload.tsx 156-163: the change event of the picker the page offers
handleFileSelect(files) ==
    /\ PickerOffered
    /\ handleFileSelectCall(files)

\* a slip in 110: the item after the one asked for is filtered out
WithoutIndexOffByOne(s, index) ==
    [ k \in 1..(Len(s) - 1) |-> IF k <= index THEN s[k] ELSE s[k + 1] ]

\* MobileUpload.tsx 110: prev.filter((_, i) => i !== index)
WithoutIndex(s, index) ==
    [ k \in 1..(Len(s) - 1) |-> IF k < index THEN s[k] ELSE s[k + 1] ]

\* MobileUpload.tsx 175-182: the remove button of a preview is rendered
\* while the status is connected.
RemoveOffered == mobile.status = "connected"

\* MobileUpload.tsx 108-112 (index is one-based here)
removeFile(index) ==
    /\ RemoveOffered
    /\ mobile' = [mobile EXCEPT !.selectedFiles = WithoutIndex(@, index),
                                !.previews = WithoutIndex(@, index)]
    /\ UNCHANGED << launch, requested, remotePeerId, mobilePeer, mobileConn, run, sent, wire >>
    /\ UNCHANGED modalVars
    /\ last' = Ran("removeFile", mobile.status)

\* conn.send(message): the library puts the message on the channel while both
\* ends of the connection are open, and transmits nothing otherwise.
Transmitted(message) ==
    IF mobileConn = "open" /\ modalConn = "open" THEN <<message>> ELSE <<>>

\* a slip in 190: the Send button is rendered in every status
SendOfferedInEveryStatus == Len(mobile.selectedFiles) > 0

\* MobileUpload.tsx 190-198: the Send button is rendered only while the
\* status is connected and the selection is not empty.
SendOffered == mobile.status = "connected" /\ Len(mobile.selectedFiles) > 0

\* a slip in 78: the empty selection is not looked at; the loop then runs
\* zero times and the done message and the status follow without an await
sendFilesCallWithoutEmptyCheck ==
    /\ IF ~mobile.connRef
         THEN UNCHANGED << mobile, run, sent, wire >>
         ELSE IF Len(mobile.selectedFiles) = 0
           THEN /\ mobile' = [mobile EXCEPT !.status = "done",
                                            !.totalFiles = 0,
                                            !.sendProgress = 0]
                /\ run' = [ pc |-> "returned", i |-> 0, files |-> <<>> ]
                /\ sent' = Append(sent, DoneMessage)
                /\ wire' = wire \o Transmitted(DoneMessage)
           ELSE /\ mobile' = [mobile EXCEPT !.status = "sending",
                                            !.totalFiles = Len(mobile.selectedFiles),
                                            !.sendProgress = 0]
                /\ run' = [ pc |-> "read", i |-> 0, files |-> mobile.selectedFiles ]
                /\ UNCHANGED << sent, wire >>
    /\ UNCHANGED << launch, requested, remotePeerId, mobilePeer, mobileConn >>
    /\ UNCHANGED modalVars
    /\ last' = Ran("sendFiles", mobile.status)

\* MobileUpload.tsx 76-86: sendFiles returns at once without a connection or
\* with an empty selection, and otherwise sets the status, the total and the
\* progress and starts to read file 0.  The invocation keeps the
\* selectedFiles of the render it was created in.
sendFilesCall ==
    /\ IF ~mobile.connRef \/ Len(mobile.selectedFiles) = 0
         THEN UNCHANGED << mobile, run >>
         ELSE /\ mobile' = [mobile EXCEPT !.status = "sending",
                                          !.totalFiles = Len(mobile.selectedFiles),
                                          !.sendProgress = 0]
              /\ run' = [ pc |-> "read", i |-> 0, files |-> mobile.selectedFiles ]
    /\ UNCHANGED << launch, requested, remotePeerId, mobilePeer, mobileConn, sent, wire >>
    /\ UNCHANGED modalVars
    /\ last' = Ran("sendFiles", mobile.status)

\* MobileUpload.tsx 190-198: a click on the Send button the page offers
sendFiles ==
    /\ SendOffered
    /\ sendFilesCall

\* a slip in 97: the progress is set to i in place of i + 1
SendFileProgressIsIndex ==
    /\ run.pc = "read"
    /\ LET message == FileMessage(run.files[run.i + 1], run.i, Len(run.files))
       IN  /\ sent' = Append(sent, message)
           /\ wire' = wire \o Transmitted(message)
    /\ mobile' = [mobile EXCEPT !.sendProgress = run.i]
    /\ run' = [run EXCEPT !.pc = "delay"]
    /\ UNCHANGED << launch, requested, remotePeerId, mobilePeer, mobileConn >>
    /\ UNCHANGED modalVars
    /\ last' = Ran("SendFile", mobile.status)

\* MobileUpload.tsx 86-100: file.arrayBuffer() resolved; the file message is
\* handed to conn.send, the progress is set, and the pacing timer starts.
SendFile ==
    /\ run.pc = "read"
    /\ LET message == FileMessage(run.files[run.i + 1], run.i, Len(run.files))
       IN  /\ sent' = Append(sent, message)
           /\ wire' = wire \o Transmitted(message)
    /\ mobile' = [mobile EXCEPT !.sendProgress = run.i + 1]
    /\ run' = [run EXCEPT !.pc = "delay"]
    /\ UNCHANGED << launch, requested, remotePeerId, mobilePeer, mobileConn >>
    /\ UNCHANGED modalVars
    /\ last' = Ran("SendFile", mobile.status)

\* MobileUpload.tsx 86: file.arrayBuffer() rejected (the file cannot be read
\* any more); the promise of sendFiles rejects and the loop is abandoned.
ReadFails ==
    /\ run.pc = "read"
    /\ run' = [run EXCEPT !.pc = "threw"]
    /\ UNCHANGED << launch, requested, remotePeerId, mobile, mobilePeer, mobileConn, sent, wire >>
    /\ UNCHANGED modalVars
    /\ last' = Ran("ReadFails", mobile.status)

\* a variant of 105: the status is set only if no error was seen
StatusAfterSendKeepsError(prev) == IF prev = "error" THEN "error" ELSE "done"

\* MobileUpload.tsx 105: the status sendFiles sets after the done message
StatusAfterSend(prev) == "done"

\* MobileUpload.tsx 100, 84, 103-105: the pacing timer fired; i++, and either
\* the next file is read or the done message is sent and the status set.
AfterDelay ==
    /\ run.pc = "delay"
    /\ IF run.i + 1 < Len(run.files)
         THEN /\ run' = [run EXCEPT !.pc = "read", !.i = run.i + 1]
              /\ UNCHANGED << mobile, sent, wire >>
         ELSE /\ sent' = Append(sent, DoneMessage)
              /\ wire' = wire \o Transmitted(DoneMessage)
              /\ mobile' = [mobile EXCEPT !.status = StatusAfterSend(mobile.status)]
              /\ run' = [run EXCEPT !.pc = "returned", !.i = run.i + 1]
    /\ UNCHANGED << launch, requested, remotePeerId, mobilePeer, mobileConn >>
    /\ UNCHANGED modalVars
    /\ last' = Ran("AfterDelay", mobile.status)

(***************************************************************************)
(* PhoneUploadModal, the receiver.                                         *)
(***************************************************************************)
\* part_002 22-27: the state after the first render
ModalInit ==
    [ status        |-> "initializing",
      qrUrl         |-> "",
      receivedCount |-> 0,
      totalCount    |-> 0 ]

\* window.location of the PC's page: it is opened on the PC itself
PageLocation == [ protocol |-> "http:", hostname |-> "localhost", port |-> "3000" ]

\* the window.location a PC's page can have: opened on the PC itself by
\* either loopback name, by the PC's LAN address, or from a public host
\* without a port
Locations ==
    { PageLocation,
      [ protocol |-> "http:",  hostname |-> "127.0.0.1",        port |-> "3000" ],
      [ protocol |-> "http:",  hostname |-> "192.168.1.5",      port |-> "3000" ],
      [ protocol |-> "https:", hostname |-> "snap.example.org", port |-> "" ] }

\* part_000 9: os.networkInterfaces() of the machine the page is built on,
\* as the list the two loops of 10-11 walk through: with a LAN adapter,
\* with the loopback interface only, and with an IPv6 adapter only
BuildMachine ==
    << [ family |-> "IPv4", internal |-> TRUE,  address |-> "127.0.0.1" ],
       [ family |-> "IPv6", internal |-> FALSE, address |-> "fe80::1" ],
       [ family |-> "IPv4", internal |-> FALSE, address |-> "192.168.1.5" ] >>

BuildMachines ==
    { BuildMachine,
      << [ family |-> "IPv4", internal |-> TRUE, address |-> "127.0.0.1" ] >>,
      << [ family |-> "IPv4", internal |-> TRUE,  address |-> "127.0.0.1" ],
         [ family |-> "IPv6", internal |-> FALSE, address |-> "fe80::1" ] >> }

\* part_000 8-18: the first external IPv4 address, or 'localhost'
getLocalIP(interfaces) ==
    LET External(k) == /\ interfaces[k].family = "IPv4"
                       /\ ~interfaces[k].internal
    IN  IF \E k \in 1..Len(interfaces) : External(k)
          THEN interfaces[CHOOSE k \in 1..Len(interfaces) :
                             /\ External(k)
                             /\ \A j \in 1..(k - 1) : ~External(j)].address
          ELSE "localhost"

\* part_000 22-27: process.env.LOCAL_IP, the address found at build time
LOCAL_IP(interfaces) == getLocalIP(interfaces)

\* the identifiers the broker assigns to an endpoint made by new Peer()
BrokerIds == { PeerId, "3f2a-9c0e", "0" }

\* a slip in 41: the identifier goes out under another parameter name
QrUrlForWithIdParameter(location, env, id) ==
    LET localIP  == IF env # "" THEN env ELSE location.hostname
        hostname == IF location.hostname \in { "localhost", "127.0.0.1" }
                      THEN localIP
                      ELSE location.hostname
        port     == IF location.port # "" THEN ":" \o location.port ELSE ""
        baseUrl  == location.protocol \o "//" \o hostname \o port
    IN  baseUrl \o "?mode=upload&id=" \o id

\* part_002 35-41: the address published for the identifier `id` by a page
\* at `location` built with process.env.LOCAL_IP = env
QrUrlFor(location, env, id) ==
    LET localIP  == IF env # "" THEN env ELSE location.hostname
        hostname == IF location.hostname \in { "localhost", "127.0.0.1" }
                      THEN localIP
                      ELSE location.hostname
        port     == IF location.port # "" THEN ":" \o location.port ELSE ""
        baseUrl  == location.protocol \o "//" \o hostname \o port
    IN  baseUrl \o "?mode=upload&peer=" \o id

\* part_002 33-44: peer.on('open') with the identifier the broker assigned
ModalPeerOpenAs(id) ==
    /\ modalPeer = "created"
    /\ modalPeer' = "open"
    /\ pc' = [pc EXCEPT !.id = id]
    /\ UNCHANGED << appVars, scripts >>
    /\ modal' = [modal EXCEPT !.qrUrl = QrUrlFor(pc.location, pc.LOCAL_IP, id),
                              !.status = "waiting"]
    /\ UNCHANGED << receivedFilesRef, modalConn, arrived, calls, others, takenFrom >>
    /\ UNCHANGED << wire >>
    /\ UNCHANGED mobileVars
    /\ last' = Ran("ModalPeerOpen", modal.status)

\* part_002 33-44: peer.on('open') in the transfer
ModalPeerOpen == ModalPeerOpenAs(PeerId)

\* part_002 46-47: peer.on('connection'): the sender's request reached the
\* open endpoint; the data and close handlers of 49-81 are registered.
ModalConnection ==
    /\ modalPeer = "open"
    /\ modalConn = "none"
    /\ mobileConn = "connecting"
    /\ requested[Len(requested)] = pc.id
    /\ modalConn' = "open"
    /\ modal' = [modal EXCEPT !.status = "connected"]
    /\ UNCHANGED << receivedFilesRef, modalPeer, arrived, calls, others, takenFrom >>
    /\ UNCHANGED << wire >>
    /\ UNCHANGED << pc, app, conv, scripts >>
    /\ UNCHANGED mobileVars
    /\ last' = Ran("ModalConnection", modal.status)

\* a slip in 59: the type of the message is not looked at
IsAcceptedFileOfAnyType(payload) ==
    /\ TruthyObject(payload.data)
    /\ TruthyString(payload.name)
    /\ TruthyString(payload.mimeType)

\* part_002 59: payload.type === 'file' && payload.data && payload.name &&
\* payload.mimeType
IsAcceptedFile(payload) ==
    /\ payload.type = "file"
    /\ TruthyObject(payload.data)
    /\ TruthyString(payload.name)
    /\ TruthyString(payload.mimeType)

\* part_002 60-61: new File([new Blob([data], {type})], name, {type})
FileOf(payload) ==
    [ name  |-> payload.name[1],
      type  |-> payload.mimeType[1],
      bytes |-> payload.data[1] ]

\* a slip in 62: unshift in place of push
PushedInFront(files, file) == << file >> \o files

\* part_002 62: receivedFilesRef.current.push(file)
Pushed(files, file) == Append(files, file)

\* part_002 71 and 79: onFilesReceived(receivedFilesRef.current)
Delivered(log, files) == Append(log, files)

\* part_002 71 and 79: the array the hosting application holds after a call
\* of onFilesReceived is receivedFilesRef.current itself, which is never
\* assigned again (27) and is pushed to in place (62)
HeldByHost == receivedFilesRef

\* part_002 49-73: conn.on('data') for one message
OnData(payload) ==
    LET accepted == IsAcceptedFile(payload)
        files    == IF accepted THEN Pushed(receivedFilesRef, FileOf(payload))
                                ELSE receivedFilesRef
        afterFile == IF accepted
                       THEN [modal EXCEPT !.totalCount = OrZero(payload.total),
                                          !.receivedCount = Len(files),
                                          !.status = "receiving"]
                       ELSE modal
    IN  /\ receivedFilesRef' = files
        /\ IF payload.type = "done"
             THEN /\ modal' = [afterFile EXCEPT !.status = "done"]
                  /\ calls' = Delivered(calls, files)
             ELSE /\ modal' = afterFile
                  /\ UNCHANGED calls

\* The channel delivers the oldest message in flight to conn.on('data').
ModalData ==
    /\ modalConn = "open"
    /\ wire # <<>>
    /\ OnData(Head(wire))
    /\ arrived' = Append(arrived, Head(wire))
    /\ wire' = Tail(wire)
    /\ UNCHANGED << modalPeer, modalConn, others, takenFrom >>
    /\ UNCHANGED << pc, app, conv, scripts >>
    /\ UNCHANGED mobileVars
    /\ last' = Ran("ModalData", modal.status)

\* a slip in 77: the close finalizes whatever the collection holds
CloseFinalizesAlways(files) == TRUE

\* part_002 77: receivedFilesRef.current.length > 0
CloseFinalizes(files) == Len(files) > 0

\* a slip in 75-81: the array is emptied once it has been handed over
ModalConnCloseResets ==
    /\ modalConn = "open"
    /\ modalConn' = "closed"
    /\ wire' = <<>>
    /\ IF CloseFinalizes(receivedFilesRef)
         THEN /\ modal' = [modal EXCEPT !.status = "done"]
              /\ calls' = Delivered(calls, receivedFilesRef)
              /\ receivedFilesRef' = <<>>
         ELSE UNCHANGED << modal, calls, receivedFilesRef >>
    /\ UNCHANGED << modalPeer, arrived, others, takenFrom >>
    /\ UNCHANGED << pc, app, conv, scripts >>
    /\ UNCHANGED mobileVars
    /\ last' = Ran("ModalConnClose", modal.status)

\* part_002 75-81: the body of conn.on('close')
OnClose ==
    /\ IF CloseFinalizes(receivedFilesRef)
         THEN /\ modal' = [modal EXCEPT !.status = "done"]
              /\ calls' = Delivered(calls, receivedFilesRef)
         ELSE UNCHANGED << modal, calls >>
    /\ UNCHANGED receivedFilesRef

\* part_002 75-81: conn.on('close'), fired once per connection; what was in
\* flight is lost with the channel.
ModalConnClose ==
    /\ modalConn = "open"
    /\ modalConn' = "closed"
    /\ wire' = <<>>
    /\ OnClose
    /\ UNCHANGED << modalPeer, arrived, others, takenFrom >>
    /\ UNCHANGED << pc, app, conv, scripts >>
    /\ UNCHANGED mobileVars
    /\ last' = Ran("ModalConnClose", modal.status)

\* part_002 84-86: peer.on('error')
ModalPeerError ==
    /\ modalPeer \in { "created", "open" }
    /\ modalPeer' = PeerAfterError(modalPeer)
    /\ modal' = [modal EXCEPT !.status = "error"]
    /\ UNCHANGED << receivedFilesRef, modalConn, arrived, calls, others, takenFrom >>
    /\ UNCHANGED << wire >>
    /\ UNCHANGED << pc, app, conv, scripts >>
    /\ UNCHANGED mobileVars
    /\ last' = Ran("ModalPeerError", modal.status)

(***************************************************************************)
(* Other peers.  peer.on('connection') takes the connection of any peer    *)
(* that knows the identifier, and registers the same data and close        *)
(* handlers on it; such a peer may send any message.                       *)
(***************************************************************************)
\* the peers, besides the phone, that connect to the receiver's endpoint
OtherPeers == { "peer-2", "peer-3" }

\* the most messages the other peers send
MaxArrived == 3

\* what a peer can send: file messages that line 59 accepts, file messages
\* with an empty mimeType or without a payload, the done message, and a
\* message of a type the protocol does not know
AnyMessages ==
    { FileMessage([name |-> "a.jpg", type |-> "image/jpeg", bytes |-> <<255, 216>>], 0, 2),
      FileMessage([name |-> "b.png", type |-> "image/png", bytes |-> <<>>], 1, 2),
      FileMessage([name |-> "c.heic", type |-> "", bytes |-> <<0>>], 0, 1),
      [ type |-> "file", name |-> Some("d.jpg"), mimeType |-> Some("image/jpeg"),
        data |-> None, index |-> Some(0), total |-> Some(1) ],
      DoneMessage,
      [ type |-> "ping", name |-> Some("e.jpg"), mimeType |-> Some("image/jpeg"),
        data |-> Some(<<1>>), index |-> Some(0), total |-> Some(1) ] }

\* part_002 46-47: peer.on('connection') for the connection of peer c
OtherConnection(c) ==
    /\ modalPeer = "open"
    /\ others[c] = "none"
    /\ others' = [others EXCEPT ![c] = "open"]
    /\ takenFrom' = Append(takenFrom, c)
    /\ modal' = [modal EXCEPT !.status = "connected"]
    /\ UNCHANGED << receivedFilesRef, modalPeer, modalConn, arrived, calls >>
    /\ UNCHANGED << wire >>
    /\ UNCHANGED << pc, app, conv, scripts >>
    /\ UNCHANGED mobileVars
    /\ last' = Ran("OtherConnection", modal.status)

\* part_002 49-73: conn.on('data') on the connection of peer c
OtherReceives(c, payload) ==
    /\ others[c] = "open"
    /\ Len(arrived) < MaxArrived
    /\ OnData(payload)
    /\ arrived' = Append(arrived, payload)
    /\ UNCHANGED << modalPeer, modalConn, others, takenFrom >>
    /\ UNCHANGED << wire >>
    /\ UNCHANGED << pc, app, conv >>
    /\ UNCHANGED mobileVars
    /\ last' = Ran("OtherData", modal.status)

\* part_002 49-73: any message arrives from peer c
OtherData(c, payload) ==
    /\ OtherReceives(c, payload)
    /\ UNCHANGED scripts

\* a peer that has sent nothing yet
NotStarted == [ total |-> 0, next |-> 0 ]

\* MobileUpload.tsx 84-104: the next message of a sender that follows the
\* protocol with a batch of `total` files of which it has sent `next`: the
\* file message of index next, or the done message after the last one
ProtocolMessage(file, next, total) ==
    IF next < total THEN FileMessage(file, next, total) ELSE DoneMessage

\* part_002 49-73: the next message of peer c arrives; c decides on the
\* size of its batch with its first message and is silent after its done
ProtocolData(c, file, size) ==
    /\ scripts[c].next <= IF scripts[c] = NotStarted THEN size ELSE scripts[c].total
    /\ LET total == IF scripts[c] = NotStarted THEN size ELSE scripts[c].total
       IN  /\ OtherReceives(c, ProtocolMessage(file, scripts[c].next, total))
           /\ scripts' = [scripts EXCEPT ![c] = [ total |-> total, next |-> @.next + 1 ]]

\* part_002 75-81: conn.on('close') on the connection of peer c
OtherClose(c) ==
    /\ others[c] = "open"
    /\ others' = [others EXCEPT ![c] = "closed"]
    /\ OnClose
    /\ UNCHANGED << modalPeer, modalConn, arrived, takenFrom >>
    /\ UNCHANGED << wire >>
    /\ UNCHANGED << pc, app, conv, scripts >>
    /\ UNCHANGED mobileVars
    /\ last' = Ran("OtherClose", modal.status)

(***************************************************************************)
(* App (src/src/App.tsx): OCR of the images and assembly of the document.  *)
(***************************************************************************)
\* everything of the transfer
transferVars == << pc, launch, requested, remotePeerId, mobile, mobilePeer,
                   mobileConn, run, sent, wire, modal, receivedFilesRef,
                   modalPeer, modalConn, arrived, calls, others, takenFrom,
                   scripts >>

\* A JavaScript value as JSON.parse returns it: an array with its items, or
\* an object with its text and alignment properties (undefined when it has
\* none), or a number; "SyntaxError" stands for the exception.
JsValue(kind, items, text, alignment) ==
    [ kind |-> kind, items |-> items, text |-> text, alignment |-> alignment ]

JsArray(items) == JsValue("array", items, None, None)

\* { text, alignment }
Block(text, alignment) == JsValue("object", <<>>, Some(text), Some(alignment))

\* App.tsx 223-241: response.text of the OCR collaborator: undefined, a JSON
\* array of blocks (with the tags left, center, right, with another tag,
\* with the name of an inherited property as tag), an array without blocks,
\* text that is no JSON, and JSON that is no array.
OcrTexts ==
    { None,
      Some("[{\"text\":\"Title\",\"alignment\":\"center\"},{\"text\":\"Body\",\"alignment\":\"left\"}]"),
      Some("[{\"text\":\"Page 2\",\"alignment\":\"right\"}]"),
      Some("[{\"text\":\"Sum\",\"alignment\":\"justify\"}]"),
      Some("[{\"text\":\"Note\",\"alignment\":\"constructor\"}]"),
      Some("[]"),
      Some("Sorry, I cannot read this image."),
      Some("{\"text\":\"Title\",\"alignment\":\"center\"}") }

\* App.tsx 244: JSON.parse on the texts of the model
JSONparse(text) ==
    CASE text = "[{\"text\":\"Title\",\"alignment\":\"center\"},{\"text\":\"Body\",\"alignment\":\"left\"}]"
           -> JsArray(<< Block("Title", "center"), Block("Body", "left") >>)
      [] text = "[{\"text\":\"Page 2\",\"alignment\":\"right\"}]"
           -> JsArray(<< Block("Page 2", "right") >>)
      [] text = "[{\"text\":\"Sum\",\"alignment\":\"justify\"}]"
           -> JsArray(<< Block("Sum", "justify") >>)
      [] text = "[{\"text\":\"Note\",\"alignment\":\"constructor\"}]"
           -> JsArray(<< Block("Note", "constructor") >>)
      [] text = "[]"
           -> JsArray(<<>>)
      [] text = "{\"text\":\"Title\",\"alignment\":\"center\"}"
           -> Block("Title", "center")
      [] OTHER
           -> JsValue("SyntaxError", <<>>, None, None)

\* `x || ''` for an optional string
OrEmpty(opt) == IF TruthyString(opt) THEN opt[1] ELSE ""

\* App.tsx 243-249: what one response adds to extractedData
ParsedOrFallback(responseText) ==
    LET parsed == JSONparse(IF TruthyString(responseText) THEN responseText[1] ELSE "[]")
    IN  IF parsed.kind = "SyntaxError"
          THEN JsArray(<< Block(OrEmpty(responseText), "left") >>)
          ELSE parsed

\* the properties every object literal inherits from Object.prototype
ObjectPrototypeKeys ==
    { "constructor", "toString", "valueOf", "hasOwnProperty", "isPrototypeOf",
      "propertyIsEnumerable", "toLocaleString", "__proto__" }

\* App.tsx 278-282, 287: alignmentMap[block.alignment] || AlignmentType.LEFT;
\* an inherited property is found in the map and is truthy
AlignmentOf(alignment) ==
    IF alignment = None THEN "left"
    ELSE IF alignment[1] \in { "left", "center", "right" } THEN alignment[1]
    ELSE IF alignment[1] \in ObjectPrototypeKeys THEN "inherited"
    ELSE "left"

\* App.tsx 286-290: the paragraph of a block
ParagraphOf(block) ==
    [ alignment |-> Some(AlignmentOf(block.alignment)),
      text      |-> block.text,
      after     |-> 200 ]

\* App.tsx 295: new Paragraph({ children: [new TextRun("")] })
BlankParagraph == [ alignment |-> None, text |-> Some(""), after |-> 0 ]

\* App.tsx 277: imageBlocks.forEach exists for an array only
HasForEach(value) == value.kind = "array"

\* App.tsx 276-296: the paragraphs of the document, for extractedData whose
\* entries all have forEach
RECURSIVE Children(_)
Children(extractedData) ==
    IF extractedData = <<>> THEN <<>>
    ELSE LET imageBlocks == Head(extractedData)
         IN  [ k \in 1..Len(imageBlocks.items) |-> ParagraphOf(imageBlocks.items[k]) ]
                \o << BlankParagraph >>
                \o Children(Tail(extractedData))

\* App.tsx 376: blocks.map exists for an array only
HasMap(value) == value.kind = "array"

\* Array.prototype.join on strings
RECURSIVE join(_, _)
join(strings, separator) ==
    IF strings = <<>> THEN ""
    ELSE IF Len(strings) = 1 THEN strings[1]
    ELSE strings[1] \o separator \o join(Tail(strings), separator)

\* App.tsx 376: blocks.map(b => b.text), a missing text joined as ''
TextsOf(blocks) == [ k \in 1..Len(blocks.items) |-> OrEmpty(blocks.items[k].text) ]

\* App.tsx 375-377: the text of all images, for extractedData whose entries
\* all have map
AllText(extractedData) ==
    join([ k \in 1..Len(extractedData) |-> join(TextsOf(extractedData[k]), "\n") ],
         "\n\n")

\* App.tsx 123-133: the state after the first render
AppInit ==
    [ files          |-> <<>>,
      isConverting   |-> FALSE,
      isSuccess      |-> FALSE,
      resultBlob     |-> None,
      resultFileName |-> "",
      progress       |-> 0,
      progressLabel  |-> <<>>,
      extractedText  |-> "",
      isExtracting   |-> FALSE ]

\* neither handleConvert nor handleExtractText has been called; timers is
\* the number of progress intervals that are set and not cleared
ConvIdle ==
    [ kind          |-> "none",
      pc            |-> "idle",
      i             |-> 0,
      files         |-> <<>>,
      responses     |-> <<>>,
      extractedData |-> <<>>,
      children      |-> <<>>,
      timers        |-> 0 ]

\* App.tsx 144: the identifiers of the images, in the order they are made
ImageIds == << "p1", "p2", "p3", "p4" >>

\* App.tsx 220: `${t.processingImage} ${i + 1} ${t.of} ${total}`
ProcessingLabel(i, total) == << "processingImage", i + 1, "of", total >>

\* App.tsx 140-153: onFileSelect with n picked images
onFileSelect(n) ==
    /\ Len(app.files) + n <= MaxImages
    /\ app' = [app EXCEPT
                 !.files = @ \o [ k \in 1..n |-> ImageIds[Len(app.files) + k] ],
                 !.isSuccess = FALSE,
                 !.resultBlob = None,
                 !.resultFileName = ""]
    /\ UNCHANGED conv
    /\ UNCHANGED transferVars
    /\ last' = Ran("onFileSelect", "")

\* App.tsx 155-162: clearFiles
clearFiles ==
    /\ Len(app.files) > 0
    /\ app' = [app EXCEPT !.files = <<>>,
                          !.isSuccess = FALSE,
                          !.resultBlob = None,
                          !.resultFileName = "",
                          !.extractedText = ""]
    /\ UNCHANGED conv
    /\ UNCHANGED transferVars
    /\ last' = Ran("clearFiles", "")

\* App.tsx 183-197: handleDrop of files of which n are images
handleDrop(n) ==
    /\ Len(app.files) + n <= MaxImages
    /\ app' = [app EXCEPT
                 !.files = @ \o [ k \in 1..n |-> ImageIds[Len(app.files) + k] ],
                 !.isSuccess = FALSE]
    /\ UNCHANGED conv
    /\ UNCHANGED transferVars
    /\ last' = Ran("handleDrop", "")

\* a slip in 564: the convert button is not disabled
ConvertOfferedWhileConverting == Len(app.files) > 0

\* App.tsx 556-564: the convert button is rendered with at least one image
\* and is disabled while isConverting
ConvertOffered == Len(app.files) > 0 /\ ~app.isConverting

\* App.tsx 556-592: the extract button is rendered with at least one image
\* and is disabled while isConverting
ExtractOffered == Len(app.files) > 0 /\ ~app.isConverting

\* App.tsx 311-329, 271-272, 213-223: a click on the convert button, up to
\* the request for the first image
handleConvert ==
    /\ ConvertOffered
    /\ IF Len(app.files) = 0
         THEN UNCHANGED << app, conv >>
         ELSE /\ app' = [app EXCEPT !.isConverting = TRUE,
                                    !.resultBlob = None,
                                    !.resultFileName = "",
                                    !.progress = 0,
                                    !.progressLabel = ProcessingLabel(0, Len(app.files))]
              /\ conv' = [ kind          |-> "convert",
                           pc            |-> "ocr",
                           i             |-> 0,
                           files         |-> app.files,
                           responses     |-> <<>>,
                           extractedData |-> <<>>,
                           children      |-> <<>>,
                           timers        |-> conv.timers + 1 ]
    /\ UNCHANGED transferVars
    /\ last' = Ran("handleConvert", "")

\* App.tsx 354-372, 213-223: a click on the extract button, up to the
\* request for the first image
handleExtractText ==
    /\ ExtractOffered
    /\ IF Len(app.files) = 0
         THEN UNCHANGED << app, conv >>
         ELSE /\ app' = [app EXCEPT !.isExtracting = TRUE,
                                    !.isConverting = TRUE,
                                    !.extractedText = "",
                                    !.isSuccess = FALSE,
                                    !.resultBlob = None,
                                    !.progress = 0,
                                    !.progressLabel = ProcessingLabel(0, Len(app.files))]
              /\ conv' = [ kind          |-> "extract",
                           pc            |-> "ocr",
                           i             |-> 0,
                           files         |-> app.files,
                           responses     |-> <<>>,
                           extractedData |-> <<>>,
                           children      |-> <<>>,
                           timers        |-> conv.timers + 1 ]
    /\ UNCHANGED transferVars
    /\ last' = Ran("handleExtractText", "")

\* a slip in 322-325 and 366-369: no cap
ProgressAfterTickUncapped(prev) == prev + 10

\* App.tsx 322-325, 366-369: the updater of the progress timer
ProgressAfterTick(prev) == IF prev >= 90 THEN 90 ELSE prev + 10

\* App.tsx 321-326, 365-370: the progress timer fires
ProgressTick ==
    /\ conv.timers > 0
    /\ app' = [app EXCEPT !.progress = ProgressAfterTick(@)]
    /\ UNCHANGED conv
    /\ UNCHANGED transferVars
    /\ last' = Ran("ProgressTick", "")

\* a slip in 339-345: the catch leaves the timer running
ConvertFailedLeavesTimer ==
    /\ conv' = [conv EXCEPT !.pc = "threw"]
    /\ app' = [app EXCEPT !.isConverting = FALSE]

\* App.tsx 339-345: catch and finally of handleConvert
ConvertFailed ==
    /\ conv' = [conv EXCEPT !.pc = "threw", !.timers = @ - 1]
    /\ app' = [app EXCEPT !.isConverting = FALSE]

\* App.tsx 380-387: catch and finally of handleExtractText
ExtractFailed ==
    /\ conv' = [conv EXCEPT !.pc = "threw", !.timers = @ - 1]
    /\ app' = [app EXCEPT !.isConverting = FALSE, !.isExtracting = FALSE]

\* the catch and finally of the handler that is running
RunFailed == IF conv.kind = "extract" THEN ExtractFailed ELSE ConvertFailed

\* App.tsx 223-250, 272-304, 373-387: the response for image i arrived.  Its
\* result is pushed; after the last image extractTextFromImages returns.
\* Under handleConvert, convertToDocx builds the paragraphs and asks for the
\* blob, or throws the TypeError of a forEach that does not exist.  Under
\* handleExtractText the timer is cleared and the text is joined and stored,
\* or the TypeError of a map that does not exist is thrown; then the handler
\* ends.
extractTextFromImages(responseText) ==
    /\ conv.pc = "ocr"
    /\ LET extractedData == Append(conv.extractedData, ParsedOrFallback(responseText))
           responses     == Append(conv.responses, responseText)
       IN  IF conv.i + 1 < Len(conv.files)
             THEN /\ conv' = [conv EXCEPT !.i = @ + 1,
                                          !.responses = responses,
                                          !.extractedData = extractedData]
                  /\ app' = [app EXCEPT !.progressLabel =
                                ProcessingLabel(conv.i + 1, Len(conv.files))]
             ELSE IF conv.kind = "extract"
               THEN IF \A k \in 1..Len(extractedData) : HasMap(extractedData[k])
                 THEN /\ conv' = [conv EXCEPT !.pc = "returned",
                                              !.timers = @ - 1,
                                              !.i = @ + 1,
                                              !.responses = responses,
                                              !.extractedData = extractedData]
                      /\ app' = [app EXCEPT !.extractedText = AllText(extractedData),
                                            !.progress = 100,
                                            !.isConverting = FALSE,
                                            !.isExtracting = FALSE]
                 ELSE /\ conv' = [conv EXCEPT !.pc = "threw",
                                              !.timers = @ - 1,
                                              !.i = @ + 1,
                                              !.responses = responses,
                                              !.extractedData = extractedData]
                      /\ app' = [app EXCEPT !.isConverting = FALSE,
                                            !.isExtracting = FALSE]
             ELSE IF \A k \in 1..Len(extractedData) : HasForEach(extractedData[k])
               THEN /\ conv' = [conv EXCEPT !.pc = "pack",
                                            !.i = @ + 1,
                                            !.responses = responses,
                                            !.extractedData = extractedData,
                                            !.children = Children(extractedData)]
                    /\ UNCHANGED app
               ELSE /\ conv' = [conv EXCEPT !.pc = "threw",
                                            !.timers = @ - 1,
                                            !.i = @ + 1,
                                            !.responses = responses,
                                            !.extractedData = extractedData]
                    /\ app' = [app EXCEPT !.isConverting = FALSE]
    /\ UNCHANGED transferVars
    /\ last' = Ran("extractTextFromImages", "")

\* App.tsx 223, 339-345, 380-387: the request for image i is rejected
OcrFails ==
    /\ conv.pc = "ocr"
    /\ RunFailed
    /\ UNCHANGED transferVars
    /\ last' = Ran("OcrFails", "")

\* App.tsx 304-306: the blob is there; the file name is asked for
convertToDocx ==
    /\ conv.pc = "pack"
    /\ conv' = [conv EXCEPT !.pc = "name"]
    /\ app' = [app EXCEPT !.progressLabel = << "generatingFile" >>]
    /\ UNCHANGED transferVars
    /\ last' = Ran("convertToDocx", "")

\* App.tsx 254-269: the names generateFileName returns
FileNames == { "document", "meeting-notes" }

\* App.tsx 306-308, 330-338, 344: the file name arrived; the result is
\* stored and handleConvert ends on its success path
generateFileName(fileName) ==
    /\ conv.pc = "name"
    /\ conv' = [conv EXCEPT !.pc = "returned", !.timers = @ - 1]
    /\ app' = [app EXCEPT !.resultBlob = Some(conv.children),
                          !.resultFileName = fileName \o ".docx",
                          !.progress = 100,
                          !.progressLabel = <<>>,
                          !.isSuccess = TRUE,
                          !.isConverting = FALSE]
    /\ UNCHANGED transferVars
    /\ last' = Ran("generateFileName", "")

(***************************************************************************)
(* The system: one phone, one PC.                                          *)
(***************************************************************************)
\* both components after their first render, nothing having happened
Components ==
    /\ scripts = [ c \in OtherPeers |-> NotStarted ]
    /\ app = AppInit
    /\ conv = ConvIdle
    /\ requested = <<>>
    /\ mobile = MobileInit
    /\ mobilePeer = "none"
    /\ mobileConn = "none"
    /\ run = RunIdle
    /\ sent = <<>>
    /\ wire = <<>>
    /\ modal = ModalInit
    /\ receivedFilesRef = <<>>
    /\ modalPeer = "created"
    /\ modalConn = "none"
    /\ arrived = <<>>
    /\ calls = <<>>
    /\ others = [ c \in OtherPeers |-> "none" ]
    /\ takenFrom = <<>>
    /\ last = Ran("render", "")

\* The transfer: the PC's page is open on the PC itself and the phone has
\* loaded a launch URL that renders MobileUpload.
Init ==
    /\ Components
    /\ pc = [ location |-> PageLocation, LOCAL_IP |-> LOCAL_IP(BuildMachine), id |-> "" ]
    /\ \E href \in LaunchUrls :
          /\ launch = Loaded(href)
          /\ remotePeerId = RemotePeerIdAt(href)
    /\ remotePeerId \in LaunchPeerParams

\* the user picks one or more files, as far as the bound on the selection goes
Pick ==
    \E files \in SeqsOf(PickableFiles, 1, MaxFiles - Len(mobile.selectedFiles)) :
        handleFileSelect(files)

Remove == \E index \in 1..Len(mobile.selectedFiles) : removeFile(index)

Next ==
    \/ MobileMount
    \/ MobilePeerOpen
    \/ MobileConnOpen
    \/ MobileConnClose
    \/ MobileConnError
    \/ MobilePeerError
    \/ Pick
    \/ Remove
    \/ sendFiles
    \/ SendFile
    \/ ReadFails
    \/ AfterDelay
    \/ ModalPeerOpen
    \/ ModalConnection
    \/ ModalData
    \/ ModalConnClose
    \/ ModalPeerError

Spec == Init /\ [][Next]_vars

\* The same system over a connection that stays healthy: no close, no error,
\* every file read succeeds.
NextHealthy ==
    \/ MobileMount
    \/ MobilePeerOpen
    \/ MobileConnOpen
    \/ Pick
    \/ Remove
    \/ sendFiles
    \/ SendFile
    \/ AfterDelay
    \/ ModalPeerOpen
    \/ ModalConnection
    \/ ModalData

SpecHealthy == Init /\ [][NextHealthy]_vars

\* The transfer when every file read and every pacing timer completes: the
\* steps of a running sendFiles are taken sooner or later; nothing is asked
\* of the broker, the channel or the receiver.
NextSending ==
    \/ MobileMount
    \/ MobilePeerOpen
    \/ MobileConnOpen
    \/ MobileConnClose
    \/ MobileConnError
    \/ MobilePeerError
    \/ Pick
    \/ Remove
    \/ sendFiles
    \/ SendFile
    \/ AfterDelay
    \/ ModalPeerOpen
    \/ ModalConnection
    \/ ModalData
    \/ ModalConnClose
    \/ ModalPeerError

SpecSending ==
    /\ Init
    /\ [][NextSending]_vars
    /\ WF_vars(SendFile)
    /\ WF_vars(AfterDelay)

\* The handlers of the sender called whatever the page offers: sendFiles
\* while no invocation of it is under way (the model follows one), and
\* handleFileSelect in every status.
TriggerSend == run.pc = "idle" /\ sendFilesCall

PickAnyTime ==
    \E files \in SeqsOf(PickableFiles, 1, MaxFiles - Len(mobile.selectedFiles)) :
        handleFileSelectCall(files)

NextTrigger ==
    \/ MobileMount
    \/ MobilePeerOpen
    \/ MobileConnOpen
    \/ MobileConnClose
    \/ MobileConnError
    \/ MobilePeerError
    \/ PickAnyTime
    \/ Remove
    \/ TriggerSend
    \/ SendFile
    \/ ReadFails
    \/ AfterDelay
    \/ ModalPeerOpen
    \/ ModalConnection
    \/ ModalData
    \/ ModalConnClose
    \/ ModalPeerError

SpecTrigger == Init /\ [][NextTrigger]_vars

\* The handshake: the PC's page is open at any of the locations, built on any
\* of the machines; the broker assigns any identifier; the phone loads the
\* published URL, or one typed by hand.
TypedUrls ==
    { "http://192.168.1.5:3000/" \o query :
        query \in { "", "?", "?mode=upload", "?peer=" \o PeerId,
                    "?mode=upload&peer=", "?mode=view&peer=" \o PeerId,
                    "?mode=upload&peer=" \o PeerId,
                    "?peer=" \o PeerId \o "&mode=upload",
                    "?mode=upload&peer=zz-9#top" } }

\* part_001 8-15: the page is loaded from href on the phone; MobileUpload,
\* when rendered, reads remotePeerId from the query (MobileUpload.tsx 15-16)
LoadPage(href) ==
    /\ launch = NotLoaded
    /\ launch' = Loaded(href)
    /\ remotePeerId' = IF RootOf(href) = "MobileUpload"
                         THEN RemotePeerIdAt(href)
                         ELSE remotePeerId
    /\ UNCHANGED << requested, mobile, mobilePeer, mobileConn, run, sent, wire >>
    /\ UNCHANGED modalVars
    /\ last' = Ran("main", "")

\* the user scans the code of the published URL
Scan == modal.qrUrl # "" /\ LoadPage(modal.qrUrl)

TypeUrl == \E href \in TypedUrls : LoadPage(href)

ModalPeerOpenAny == \E id \in BrokerIds : ModalPeerOpenAs(id)

InitLaunch ==
    /\ Components
    /\ pc \in { [ location |-> location, LOCAL_IP |-> LOCAL_IP(interfaces), id |-> "" ] :
                  location \in Locations, interfaces \in BuildMachines }
    /\ launch = NotLoaded
    /\ remotePeerId = ""

NextLaunch ==
    \/ ModalPeerOpenAny
    \/ Scan
    \/ TypeUrl
    \/ MobileMount
    \/ MobilePeerOpen
    \/ ModalConnection
    \/ MobileConnOpen

SpecLaunch == InitLaunch /\ [][NextLaunch]_vars

\* App alone: images are picked and converted, the OCR collaborator
\* answering each request with any of the texts or not at all.
NextApp ==
    \/ \E n \in 1..MaxImages : onFileSelect(n)
    \/ handleConvert
    \/ ProgressTick
    \/ \E responseText \in OcrTexts : extractTextFromImages(responseText)
    \/ OcrFails
    \/ convertToDocx
    \/ \E fileName \in FileNames : generateFileName(fileName)

SpecApp == Init /\ [][NextApp]_vars

\* the answers of the OCR collaborator that make a run end in each of its
\* ways: an array of blocks, text that is no JSON, JSON that is no array
RunTexts ==
    { Some("[{\"text\":\"Page 2\",\"alignment\":\"right\"}]"),
      Some("Sorry, I cannot read this image."),
      Some("{\"text\":\"Title\",\"alignment\":\"center\"}") }

\* a step of the run in progress
RunStep ==
    \/ \E responseText \in RunTexts : extractTextFromImages(responseText)
    \/ OcrFails
    \/ convertToDocx
    \/ generateFileName("document")

\* App alone with everything its user can do while runs start, go on and
\* end: picking, dropping and clearing images, converting and extracting.
NextRuns ==
    \/ \E n \in 1..MaxImages : onFileSelect(n)
    \/ \E n \in 0..MaxImages : handleDrop(n)
    \/ clearFiles
    \/ handleConvert
    \/ handleExtractText
    \/ ProgressTick
    \/ \E responseText \in RunTexts : extractTextFromImages(responseText)
    \/ OcrFails
    \/ convertToDocx
    \/ generateFileName("document")

SpecRuns == Init /\ [][NextRuns]_vars

\* The same, where every promise a run awaits is settled in the end: the
\* request for an image is answered or rejected, the blob and the file name
\* arrive.
SpecRunsSettle ==
    /\ Init
    /\ [][NextRuns]_vars
    /\ WF_vars(RunStep)

\* The receiver alone, with peers that connect to it one after or beside the
\* other and each follow the protocol of sendFiles.
NextProtocol ==
    \/ ModalPeerOpen
    \/ \E c \in OtherPeers : OtherConnection(c)
    \/ \E c \in OtherPeers : \E file \in PickableFiles : \E size \in 1..MaxFiles :
          ProtocolData(c, file, size)
    \/ \E c \in OtherPeers : OtherClose(c)

SpecProtocol == Init /\ [][NextProtocol]_vars

\* The receiver alone, with the peers that connect to it.
NextModal ==
    \/ ModalPeerOpen
    \/ ModalPeerError
    \/ \E c \in OtherPeers : OtherConnection(c)
    \/ \E c \in OtherPeers : \E payload \in AnyMessages : OtherData(c, payload)
    \/ \E c \in OtherPeers : OtherClose(c)

SpecModal == Init /\ [][NextModal]_vars

(***************************************************************************)
(* Properties.                                                             *)
(***************************************************************************)
\* the file messages among msgs, in order
FileMessagesIn(msgs) == SelectSeq(msgs, LAMBDA m : m.type = "file")

\* the done messages among msgs
DoneMessagesIn(msgs) == SelectSeq(msgs, LAMBDA m : m.type = "done")

\* m is the file message of the k-th (one-based) file of the batch `files`
IsFileMessageOf(m, files, k) ==
    /\ m.type = "file"
    /\ m.name = <<files[k].name>>
    /\ m.mimeType = <<files[k].type>>
    /\ m.data = <<files[k].bytes>>
    /\ m.index = <<k - 1>>
    /\ m.total = <<Len(files)>>

\* C1: a run of sendFiles that returned handed to the channel exactly the N
\* file messages of its batch, with index 0..N-1 in that order and total = N,
\* then one done message and nothing after it (N >= 1 is the number of files
\* selected at the trigger); while it runs, what it has sent is the first
\* sendProgress file messages of that sequence, and over a connection that is
\* still open at the return everything sent is on the channel or delivered.
C1_SendTransmitsBatch ==
    LET N == Len(run.files)
    IN  /\ run.pc = "idle" => sent = <<>>
        /\ run.pc \in { "read", "delay", "threw" } =>
              /\ Len(sent) = mobile.sendProgress
              /\ Len(sent) <= N
              /\ \A k \in 1..Len(sent) : IsFileMessageOf(sent[k], run.files, k)
        /\ run.pc = "returned" =>
              /\ N >= 1
              /\ N = mobile.totalFiles
              /\ run.files = mobile.selectedFiles
              /\ Len(sent) = N + 1
              /\ \A k \in 1..N : IsFileMessageOf(sent[k], run.files, k)
              /\ sent[N + 1].type = "done"
              /\ (mobileConn = "open" /\ modalConn = "open") => arrived \o wire = sent

\* a run over two different files returned
C1_Witness ==
    /\ run.pc = "returned"
    /\ Len(run.files) >= 2
    /\ run.files[1] # run.files[2]

\* C2: onFilesReceived is called at most once, and once when the receiver is
\* done.
C2_DeliveredExactlyOnce ==
    /\ Len(calls) <= 1
    /\ modal.status = "done" => Len(calls) = 1

\* C3: at every call of onFilesReceived the collection handed over is as
\* long as the number of file messages that had arrived.
C3_LengthIsFileMessageCount ==
    [][ calls' # calls =>
          Len(calls'[Len(calls')]) = Len(FileMessagesIn(arrived')) ]_vars

\* C4: the files the receiver holds are the files of the file messages that
\* arrived: same name, same type, same bytes, same order.
C4_RoundTrip ==
    receivedFilesRef = SubSeq(run.files, 1, Len(FileMessagesIn(arrived)))

\* C5: over a healthy connection, once the run of sendFiles returned and the
\* channel delivered everything, the receiver is done and handed over the N
\* files of the batch in the order of the selection.
C5_HealthyTransferDeliversAll ==
    (run.pc = "returned" /\ wire = <<>>) =>
        /\ modal.status = "done"
        /\ calls = << run.files >>

\* C6: when the close handler ran after k >= 1 file messages and no done
\* message had arrived, the receiver is done and the last call of
\* onFilesReceived handed over those k files in the order of arrival.
C6_CloseDeliversPartial ==
    LET k == Len(FileMessagesIn(arrived))
    IN  ( /\ last.handler = "ModalConnClose"
          /\ k >= 1
          /\ DoneMessagesIn(arrived) = <<>> ) =>
            /\ modal.status = "done"
            /\ calls # <<>>
            /\ calls[Len(calls)] = SubSeq(run.files, 1, k)

\* C7: once onFilesReceived was called, a close or an error handler leaves
\* the array that was handed over (receivedFilesRef.current itself) and what
\* the earlier calls passed as they are.
C7_DeliveredUnchangedByCloseOrError ==
    [][ (calls # <<>> /\ (ModalConnClose \/ ModalPeerError)) =>
          /\ receivedFilesRef' = receivedFilesRef
          /\ SubSeq(calls', 1, Len(calls)) = calls ]_vars

\* the close handler ran after the done message had finalized a transfer of
\* two files
C7_Witness ==
    /\ last.handler = "ModalConnClose"
    /\ last.prev = "done"
    /\ Len(calls) = 2
    /\ Len(receivedFilesRef) = 2

\* C8: a close of the sender's connection in status done leaves it done.
C8_CloseAfterDoneStaysDone ==
    (last.handler = "MobileConnClose" /\ last.prev = "done") =>
        mobile.status = "done"

\* the sender's close handler ran in status done
C8_Witness ==
    /\ last.handler = "MobileConnClose"
    /\ last.prev = "done"
    /\ run.pc = "returned"

\* C9: the sender's status done never changes.
C9_SenderDoneIsTerminal ==
    [][ mobile.status = "done" => mobile'.status = "done" ]_vars

\* C10: the sender's status error never changes.
C10_SenderErrorIsTerminal ==
    [][ mobile.status = "error" => mobile'.status = "error" ]_vars

\* C11: a close of the sender's connection in any status but done (connecting,
\* connected, sending, and error itself) leaves the status error.
C11_CloseBeforeDoneIsError ==
    (last.handler = "MobileConnClose" /\ last.prev # "done") =>
        mobile.status = "error"

\* the sender's close handler ran while the send loop was running
C11_Witness ==
    /\ last.handler = "MobileConnClose"
    /\ last.prev = "sending"
    /\ run.pc \in { "read", "delay" }
    /\ mobile.status = "error"

\* C12: the receiver's status done and its status error never change.
C12_ReceiverDoneAndErrorAreTerminal ==
    [][ modal.status \in { "done", "error" } => modal'.status = modal.status ]_vars

\* the place of a status in initializing, waiting, connected, receiving, done
StatusRank(status) ==
    CASE status = "initializing" -> 0
      [] status = "waiting"      -> 1
      [] status = "connected"    -> 2
      [] status = "receiving"    -> 3
      [] status = "done"         -> 4

\* C13: the receiver's status never steps from a later state of
\* initializing, waiting, connected, receiving, done to an earlier one
\* (steps to or from error are not ordered).
C13_ReceiverStatusMovesForward ==
    [][ (modal.status # "error" /\ modal'.status # "error") =>
          StatusRank(modal'.status) >= StatusRank(modal.status) ]_vars

\* C14: once the receiver took one inbound connection, a further connection
\* event leaves its status as it was, and no message that arrives on a
\* further connection adds a file to the collection.
C14_OneInboundSession ==
    [][ \A c \in OtherPeers :
          /\ (takenFrom # <<>> /\ OtherConnection(c)) =>
                modal'.status = modal.status
          /\ ( /\ takenFrom # <<>>
               /\ c # takenFrom[1]
               /\ \E payload \in AnyMessages : OtherData(c, payload) ) =>
                receivedFilesRef' = receivedFilesRef ]_vars

\* C15: in status error, with files accumulated and none handed over yet, no
\* step calls onFilesReceived.
C15_ErrorDiscardsAccumulated ==
    [][ ( /\ modal.status = "error"
          /\ calls = <<>>
          /\ receivedFilesRef # <<>> ) => calls' = calls ]_vars

\* the file messages among msgs that line 59 accepts
AcceptedIn(msgs) == SelectSeq(msgs, IsAcceptedFile)

\* C16: in status connected no file is accumulated; in status receiving at
\* least one is, receivedCount is the length of the collection and totalCount
\* is the total of the file message accepted last.
C16_ReceiverStateInvariants ==
    /\ modal.status = "connected" => receivedFilesRef = <<>>
    /\ modal.status = "receiving" =>
          /\ Len(receivedFilesRef) >= 1
          /\ modal.receivedCount = Len(receivedFilesRef)
          /\ AcceptedIn(arrived) # <<>>
          /\ modal.totalCount =
                AcceptedIn(arrived)[Len(AcceptedIn(arrived))].total[1]

\* a close handler runs, on whichever connection
SomeClose == ModalConnClose \/ \E c \in OtherPeers : OtherClose(c)

\* C17: the status becomes done only in the data handler of a done message
\* (whatever the collection holds) or in a close handler that finds at least
\* one file accumulated; a close handler that finds the collection empty
\* calls nothing and leaves the status.
C17_DoneOnlyByDoneMessageOrClose ==
    [][ /\ (modal.status # "done" /\ modal'.status = "done") =>
              \/ /\ Len(arrived') = Len(arrived) + 1
                 /\ arrived'[Len(arrived')].type = "done"
              \/ /\ arrived' = arrived
                 /\ SomeClose
                 /\ Len(receivedFilesRef) >= 1
        /\ (SomeClose /\ receivedFilesRef = <<>>) =>
              (modal' = modal /\ calls' = calls /\ receivedFilesRef' = <<>>) ]_vars

\* a connection closed on a receiver that had accumulated nothing, after
\* another one had brought it to done with a done message and no file
C17_Witness ==
    /\ last.handler = "OtherClose"
    /\ last.prev = "done"
    /\ receivedFilesRef = <<>>
    /\ modal.status = "done"
    /\ calls = << <<>> >>

\* C18: the data handler of a message whose type is neither file nor done
\* changes nothing: status, counts, collection, calls.
C18_UnknownTypeIgnored ==
    [][ ( /\ Len(arrived') = Len(arrived) + 1
          /\ arrived'[Len(arrived')].type \notin { "file", "done" } ) =>
            (modal' = modal /\ receivedFilesRef' = receivedFilesRef /\ calls' = calls) ]_vars

\* a message of an unknown type was handled while files were being received
C18_Witness ==
    /\ last.handler = "OtherData"
    /\ last.prev = "receiving"
    /\ arrived[Len(arrived)].type = "ping"
    /\ modal.status = "receiving"
    /\ Len(receivedFilesRef) = 1

\* C19: a call of sendFiles with an empty selection hands nothing to the
\* channel and leaves the status (connected, when there is a connection), the
\* progress, the total and everything else of the sender as they were.
C19_EmptySelectionSendsNothing ==
    [][ (sendFilesCall /\ mobile.selectedFiles = <<>>) =>
          (mobile' = mobile /\ sent' = sent /\ wire' = wire /\ run' = run) ]_vars

\* sendFiles was called in status connected with nothing selected
C19_Witness ==
    /\ last.handler = "sendFiles"
    /\ last.prev = "connected"
    /\ mobile.connRef
    /\ mobile.selectedFiles = <<>>
    /\ mobile.status = "connected"
    /\ sent = <<>>

\* C20: without a peer identifier in the launch URL the effect sets the
\* status error, makes no endpoint and issues no connection request, and the
\* status stays error whatever the user does afterwards: no file selection
\* and no send trigger starts a transfer.
C20_NoPeerIdIsError ==
    (remotePeerId = "" /\ mobilePeer # "none") =>
        /\ mobile.status = "error"
        /\ mobilePeer = "absent"
        /\ mobileConn = "none"
        /\ ~mobile.connRef
        /\ run.pc = "idle"
        /\ sent = <<>>

\* without a peer identifier, files were selected and send was triggered
C20_Witness ==
    /\ remotePeerId = ""
    /\ last.handler = "sendFiles"
    /\ Len(mobile.selectedFiles) >= 1
    /\ mobile.status = "error"

\* the names of the machine itself
Loopback == { "localhost", "127.0.0.1" }

\* C21: MobileUpload is rendered exactly for a query with mode=upload and a
\* non-empty peer parameter; for every other query App is rendered.
C21_RoleSelection ==
    launch.root # "none" =>
        LET params == URLSearchParams(SearchOf(launch.href))
            sender == /\ ParamGet(params, "mode") = Some("upload")
                      /\ TruthyString(ParamGet(params, "peer"))
        IN  launch.root = IF sender THEN "MobileUpload" ELSE "App"

\* C22: the published URL is scheme//host[:port]?mode=upload&peer=id, the
\* host being the configured address for a page on a loopback name and the
\* page's own host otherwise, and a page on a loopback name never publishes
\* a loopback name.
C22_AddressConstruction ==
    modal.qrUrl # "" =>
        LET location == pc.location
            host == IF location.hostname \in Loopback
                      THEN pc.LOCAL_IP
                      ELSE location.hostname
            port == IF location.port = "" THEN "" ELSE ":" \o location.port
        IN  /\ modal.qrUrl = location.protocol \o "//" \o host \o port
                                \o "?mode=upload&peer=" \o pc.id
            /\ location.hostname \in Loopback => host \notin Loopback

\* C23: a page loaded from the URL the receiver published renders
\* MobileUpload, whose remotePeerId is the receiver's identifier, and the one
\* connection request it issues goes to that identifier.
C23_HandshakeRoundTrip ==
    (launch.href # "" /\ launch.href = modal.qrUrl) =>
        /\ launch.root = "MobileUpload"
        /\ remotePeerId = pc.id
        /\ requested \in { <<>>, << pc.id >> }

\* the published URL of a broker-chosen identifier was scanned and the
\* connection it asked for is open
C23_Witness ==
    /\ launch.href = modal.qrUrl
    /\ pc.id = "3f2a-9c0e"
    /\ requested = << "3f2a-9c0e" >>
    /\ mobileConn = "open"
    /\ modalConn = "open"

\* a connection event of the sender, a file selection or a removal
NotTheTrigger ==
    \/ MobileMount
    \/ MobilePeerOpen
    \/ MobileConnOpen
    \/ MobileConnClose
    \/ MobileConnError
    \/ MobilePeerError
    \/ Pick
    \/ Remove

\* C24: the status becomes sending only in a step of sendFiles, the handler
\* of the Send button; no connection event, file selection or removal sets
\* it to sending or hands a message to the channel.
C24_SendingOnlyByTrigger ==
    [][ /\ (mobile.status # "sending" /\ mobile'.status = "sending") => sendFiles
        /\ NotTheTrigger => /\ mobile'.status = "sending" => mobile.status = "sending"
                            /\ sent' = sent
                            /\ wire' = wire ]_vars

\* the Send button was clicked in status connected and the status is sending
C24_Witness ==
    /\ last.handler = "sendFiles"
    /\ last.prev = "connected"
    /\ mobile.status = "sending"
    /\ sent = <<>>

\* C25: the status becomes done in the step that hands the done message to
\* the channel, never before it; and once sendFiles runs on N >= 1 files the
\* status becomes done sooner or later, file reads and pacing timers
\* completing, whatever the receiver does or does not do.
C25_FireAndForget ==
    /\ [][ (mobile.status # "done" /\ mobile'.status = "done") =>
              sent' = Append(sent, DoneMessage) ]_vars
    /\ [](mobile.status = "done" => DoneMessagesIn(sent) # <<>>)
    /\ (run.pc \in { "read", "delay" } ~> mobile.status = "done")

\* the sender is done with two files while the receiver has not handled a
\* single message
C25_Witness ==
    /\ mobile.status = "done"
    /\ Len(sent) = 3
    /\ modalConn = "open"
    /\ arrived = <<>>
    /\ modal.status = "connected"

\* C26: handleFileSelect puts the picked files at the end of the selection
\* in pick order and removeFile takes out exactly the item at the given
\* position; neither changes status, sendProgress or totalFiles nor hands
\* anything to the channel.
C26_SelectionFrame ==
    [][ /\ \A files \in SeqsOf(PickableFiles, 1, MaxFiles + 1) :
              handleFileSelect(files) =>
                  mobile' = [mobile EXCEPT !.selectedFiles = mobile.selectedFiles \o files,
                                           !.previews = mobile'.previews]
        /\ \A index \in 1..(MaxFiles + 1) :
              (index <= Len(mobile.selectedFiles) /\ removeFile(index)) =>
                  mobile' = [mobile EXCEPT !.selectedFiles =
                      SubSeq(mobile.selectedFiles, 1, index - 1)
                          \o SubSeq(mobile.selectedFiles, index + 1,
                                    Len(mobile.selectedFiles)),
                      !.previews = mobile'.previews]
        /\ (Pick \/ Remove) => (sent' = sent /\ wire' = wire /\ run' = run) ]_vars

\* the first of two different files was removed
C26_Witness ==
    /\ last.handler = "removeFile"
    /\ Len(mobile.selectedFiles) = 1
    /\ mobile.selectedFiles[1].name = "b.png"
    /\ mobile.status = "connected"

\* C27: a sender calls peer.connect at most once, and not at all after an
\* error or a close; no file goes to the channel twice; the receiver sets
\* its published URL once and never again.
C27_NoRetry ==
    /\ [](Len(requested) <= 1)
    /\ [](\A j, k \in 1..Len(FileMessagesIn(sent)) :
             FileMessagesIn(sent)[j].index = FileMessagesIn(sent)[k].index => j = k)
    /\ [][ (mobile.status = "error" \/ mobileConn = "closed") =>
              requested' = requested ]_vars
    /\ [][ modal.qrUrl # "" => modal'.qrUrl = modal.qrUrl ]_vars

\* the connection closed while the batch was being sent, after an error of
\* the receiver's endpoint, whose published URL is still the first one
C27_Witness ==
    /\ last.handler = "MobileConnClose"
    /\ last.prev = "sending"
    /\ mobile.status = "error"
    /\ requested = << PeerId >>
    /\ sent # <<>>
    /\ modal.status = "error"
    /\ modal.qrUrl = QrUrlFor(pc.location, pc.LOCAL_IP, PeerId)

\* C28: receivedFilesRef changes only in the data handler of an accepted
\* file message, which puts exactly the file of that message at its end;
\* every other event leaves its items and their order alone.
C28_CollectionFrame ==
    [][ LET m == arrived'[Len(arrived')]
        IN  IF Len(arrived') = Len(arrived) + 1 /\ IsAcceptedFile(m)
              THEN receivedFilesRef' =
                      receivedFilesRef \o << [ name  |-> m.name[1],
                                               type  |-> m.mimeType[1],
                                               bytes |-> m.data[1] ] >>
              ELSE receivedFilesRef' = receivedFilesRef ]_vars

\* two files were accepted, with a message that is none in between or around
C28_Witness ==
    /\ Len(receivedFilesRef) = 2
    /\ receivedFilesRef[1] # receivedFilesRef[2]
    /\ Len(arrived) = 3
    /\ \E k \in 1..3 : arrived[k].type \notin { "file", "done" }

\* a response is well-formed structured data: its text is a JSON array of
\* objects that have a text and an alignment
WellFormed(responseText) ==
    /\ responseText # None
    /\ LET value == JSONparse(responseText[1])
       IN  /\ value.kind = "array"
           /\ \A k \in 1..Len(value.items) :
                 /\ value.items[k].kind = "object"
                 /\ value.items[k].text # None
                 /\ value.items[k].alignment # None

\* all images of the run have been answered
AllAnswered == conv.pc # "idle" /\ Len(conv.responses) = Len(conv.files)

\* C29: once every image of a batch is answered, the result of image k is
\* the parsed block sequence of response k when that is well-formed, and
\* otherwise the one block of its raw text, aligned left; the results are in
\* image order and the assembly of the document has not aborted.  (A
\* response without any text is not asked to give a fallback block here.)
C29_OcrFallback ==
    AllAnswered =>
        /\ conv.pc # "threw"
        /\ Len(conv.extractedData) = Len(conv.files)
        /\ \A k \in 1..Len(conv.files) :
              \/ ~TruthyString(conv.responses[k])
              \/ conv.extractedData[k] =
                    IF WellFormed(conv.responses[k])
                      THEN JSONparse(conv.responses[k][1])
                      ELSE JsArray(<< Block(conv.responses[k][1], "left") >>)

\* the number of blocks of all images
RECURSIVE TotalBlocks(_)
TotalBlocks(extractedData) ==
    IF extractedData = <<>> THEN 0
    ELSE Len(Head(extractedData).items) + TotalBlocks(Tail(extractedData))

\* the paragraphs of the blocks of image k, with the alignment of their tag
ParagraphsOfImage(imageBlocks) ==
    [ k \in 1..Len(imageBlocks.items) |->
        [ alignment |-> Some(IF imageBlocks.items[k].alignment
                                    \in { Some("center"), Some("right") }
                               THEN imageBlocks.items[k].alignment[1]
                               ELSE "left"),
          text      |-> imageBlocks.items[k].text,
          after     |-> 200 ] ]

\* the document of C30: blank paragraphs between the images only
RECURSIVE Separated(_)
Separated(extractedData) ==
    IF extractedData = <<>> THEN <<>>
    ELSE ParagraphsOfImage(Head(extractedData))
            \o (IF Len(extractedData) > 1 THEN << BlankParagraph >> ELSE <<>>)
            \o Separated(Tail(extractedData))

\* C30: the assembled document has, for the images in order, one paragraph
\* per block in block order, aligned as tagged (left for any other tag), and
\* one blank paragraph between consecutive images: (number of blocks) +
\* (M - 1) paragraphs, none of them a blank one after the last image.
C30_DocumentAssembly ==
    conv.pc \in { "pack", "name", "returned" } =>
        /\ Len(conv.children) = TotalBlocks(conv.extractedData) + Len(conv.files) - 1
        /\ conv.children = Separated(conv.extractedData)

\* C31: once the sender's connection has closed, or right after it reported
\* an error, the running send loop hands no file message and no done message
\* to the channel.
C31_NoSendAfterCloseOrError ==
    [][ (mobileConn = "closed" \/ last.handler = "MobileConnError") =>
          sent' = sent ]_vars

\* C32: the sequence the hosting application was given by a call of
\* onFilesReceived stays as it was at the call, whatever arrives later.
C32_DeliveredIsSnapshot ==
    \A k \in 1..Len(calls) : HeldByHost = calls[k]

\* C33: at most one done message is ever handed to the channel, and every
\* click on Send that the page accepts finds no send loop under way.
C33_OneSendingEpisode ==
    /\ [](Len(DoneMessagesIn(sent)) <= 1)
    /\ [][ sendFiles => run.pc = "idle" ]_vars

\* the batch went out, the selection is still there and Send is not offered
C33_Witness ==
    /\ mobile.status = "done"
    /\ run.pc = "returned"
    /\ Len(DoneMessagesIn(sent)) = 1
    /\ Len(mobile.selectedFiles) = 2
    /\ ~SendOffered

\* C34: 0 <= sendProgress <= totalFiles, sendProgress is the number of file
\* messages handed to the channel so far, and in status done both are the
\* number of files selected when Send was clicked.
C34_SenderProgress ==
    /\ 0 <= mobile.sendProgress
    /\ mobile.sendProgress <= mobile.totalFiles
    /\ mobile.sendProgress = Len(FileMessagesIn(sent))
    /\ mobile.status = "done" =>
          /\ mobile.sendProgress = mobile.totalFiles
          /\ mobile.totalFiles = Len(run.files)
          /\ Len(run.files) >= 1

\* the loop is half way through a batch of two
C34_Witness ==
    /\ mobile.status = "sending"
    /\ mobile.sendProgress = 1
    /\ mobile.totalFiles = 2
    /\ run.pc = "delay"

\* C35: while the receiver's status is receiving, receivedCount is at most
\* totalCount, for senders that each send the file messages 0..N-1 with
\* total = N and then done.
C35_ReceiverProgress ==
    modal.status = "receiving" => modal.receivedCount <= modal.totalCount

\* C36: on the sender the previews and the selected files have the same
\* length, and the preview at each position was created from the file at
\* that position, after any handleFileSelect and removeFile calls.
C36_PreviewsAligned ==
    /\ Len(mobile.previews) = Len(mobile.selectedFiles)
    /\ \A i \in 1..Len(mobile.selectedFiles) :
          mobile.previews[i].createdFrom = mobile.selectedFiles[i]

\* one of two selected files was removed together with its preview
C36_Witness ==
    /\ last.handler = "removeFile"
    /\ Len(mobile.selectedFiles) = 1
    /\ mobile.selectedFiles[1].name = "c.heic"
    /\ mobile.previews = << createObjectURL(mobile.selectedFiles[1]) >>

\* a run has started and not ended
RunInProgress == conv.pc \in { "ocr", "pack", "name" }

\* a run has ended, by its success path or by its catch
RunEnded == conv.pc \in { "returned", "threw" }

\* C37: every started handleConvert or handleExtractText ends, and when it
\* has ended, by success or by a throw, isConverting and isExtracting are
\* false and its progress timer is cleared; isSuccess becomes true and a
\* result is stored only in the step that ends handleConvert successfully;
\* after a failed run resultBlob is null.
C37_RunsEndClean ==
    /\ [](RunEnded => (~app.isConverting /\ ~app.isExtracting /\ conv.timers = 0))
    /\ [](conv.pc = "threw" => app.resultBlob = None)
    /\ [][ ( \/ (app'.isSuccess /\ ~app.isSuccess)
             \/ (app'.resultBlob # None /\ app'.resultBlob # app.resultBlob) )
           => (conv.kind = "convert" /\ conv.pc = "name" /\ conv'.pc = "returned") ]_vars
    /\ (RunInProgress ~> RunEnded)

\* a conversion of two images failed at the second request, after a tick
C37_Witness ==
    /\ conv.kind = "convert"
    /\ conv.pc = "threw"
    /\ Len(conv.files) = 2
    /\ Len(conv.responses) = 1
    /\ app.progress = 10
    /\ ~app.isConverting
    /\ conv.timers = 0
    /\ app.resultBlob = None

\* C38: a click on convert or extract is taken only while isConverting is
\* false and no run is in progress, so runs never overlap, and at most one
\* progress timer is active.
C38_OneRunAtATime ==
    /\ [](conv.timers <= 1)
    /\ [](RunInProgress => (app.isConverting /\ conv.timers = 1))
    /\ [][ (handleConvert \/ handleExtractText)
           => (~app.isConverting /\ ~RunInProgress /\ conv.timers = 0) ]_vars

\* a conversion is in progress after an extraction that stored its text
C38_Witness ==
    /\ conv.kind = "convert"
    /\ conv.pc = "ocr"
    /\ app.isConverting
    /\ ~app.isExtracting
    /\ conv.timers = 1
    /\ app.extractedText # ""

\* C39: progress is always within 0..100; a tick of the timer adds 10 or
\* leaves 90, and never gives more than 90; progress is 100 only after a
\* run that ended on its success path, and becomes 100 only in the step
\* that ends a run successfully.
C39_ProgressBounded ==
    /\ [](app.progress \in 0..100)
    /\ [](RunInProgress => app.progress \in { 10 * k : k \in 0..9 })
    /\ [][ ProgressTick => ( /\ app'.progress \in { app.progress + 10, 90 }
                             /\ app'.progress >= app.progress
                             /\ app'.progress <= 90 ) ]_vars
    /\ [](app.progress = 100 => conv.pc = "returned")
    /\ [][ (app'.progress = 100 /\ app.progress # 100)
           => (RunInProgress /\ conv'.pc = "returned") ]_vars

\* the timer fired with progress at its cap while an extraction is going on
C39_Witness ==
    /\ last.handler = "ProgressTick"
    /\ app.progress = 90
    /\ conv.kind = "extract"
    /\ conv.pc = "ocr"
    /\ conv.timers = 1

=============================================================================
